---- MODULE Spec2Model ----
(***************************************************************************)
(* SyncChess: the simultaneous-move chess server.                          *)
(*                                                                         *)
(* A square is <<file, digit>> with file 0..7 for 'a'..'h' and digit 1..8  *)
(* (the string "e4" is <<4, 4>>).  A piece is <<colour, type, id>>, the    *)
(* three parts of the piece strings "wPe", "bR1", "wK" (id "" for king and *)
(* queen); piece[1] and piece[2] are the JavaScript piece[0] and piece[1], *)
(* piece[3] is piece.substring(2).  null is the empty tuple.  Fields the   *)
(* handlers write but never read back (lastMoves, timers.lastUpdate) are   *)
(* left out of the room.                                                   *)
(***************************************************************************)
EXTENDS Integers, Sequences, FiniteSets, TLC

VARIABLES position, pendingMoves, lastMovedPieces, inCheck, castlingRights,
          enPassantTarget, moveHistory, gameResult, timers, timerRunning,
          gameStarted, whiteId, blackId, timerInterval, games, emitted

vars == <<position, pendingMoves, lastMovedPieces, inCheck, castlingRights,
          enPassantTarget, moveHistory, gameResult, timers, timerRunning,
          gameStarted, whiteId, blackId, timerInterval, games, emitted>>

(* the fields of the room object games[roomId] *)
roomVars == <<position, pendingMoves, lastMovedPieces, inCheck, castlingRights,
              enPassantTarget, moveHistory, gameResult, timers, timerRunning,
              gameStarted, whiteId, blackId, timerInterval>>

null == <<>>

BoardSize == 8

Coord == 0 .. (BoardSize - 1)

Squares == Coord \X (1 .. BoardSize)

ColorNames == {"white", "black"}

colorOf(colorName) == IF colorName = "white" THEN "w" ELSE "b"

nameOf(color) == IF color = "w" THEN "white" ELSE "black"

otherName(colorName) == IF colorName = "white" THEN "black" ELSE "white"

Abs(x) == IF x < 0 THEN -x ELSE x

Sign(x) == IF x < 0 THEN -1 ELSE IF x > 0 THEN 1 ELSE 0

Max(x, y) == IF x < y THEN y ELSE x

(* boardUtils *)

squareToCoords(square) == [rank |-> BoardSize - square[2], file |-> square[1]]

coordsToSquare(coords) == <<coords.file, BoardSize - coords.rank>>

positionToBoard(pos) ==
  [r \in Coord |-> [f \in Coord |->
     LET square == coordsToSquare([rank |-> r, file |-> f])
     IN  IF square \in DOMAIN pos THEN pos[square] ELSE null]]

boardToPosition(board) ==
  LET occupied == {sq \in Squares :
                     board[squareToCoords(sq).rank][squareToCoords(sq).file] # null}
  IN  [sq \in occupied |-> board[squareToCoords(sq).rank][squareToCoords(sq).file]]

at(board, coords) == board[coords.rank][coords.file]

put(board, r, f, piece) == [board EXCEPT ![r][f] = piece]

getStartingPosition ==
  LET ids == <<"a", "b", "c", "d", "e", "f", "g", "h">>
      back == <<<<"R", "1">>, <<"N", "1">>, <<"B", "1">>, <<"Q", "">>,
                <<"K", "">>, <<"B", "2">>, <<"N", "2">>, <<"R", "2">>>>
  IN  [sq \in {s \in Squares : s[2] \in {1, 2, 7, 8}} |->
         CASE sq[2] = 2 -> <<"w", "P", ids[sq[1] + 1]>>
           [] sq[2] = 7 -> <<"b", "P", ids[sq[1] + 1]>>
           [] sq[2] = 1 -> <<"w", back[sq[1] + 1][1], back[sq[1] + 1][2]>>
           [] sq[2] = 8 -> <<"b", back[sq[1] + 1][1], back[sq[1] + 1][2]>>]

(* gameLogic: legality and attack detection *)

dummyGameState ==
  [castlingRights |-> [white |-> [kingSide |-> FALSE, queenSide |-> FALSE],
                       black |-> [kingSide |-> FALSE, queenSide |-> FALSE]],
   enPassantTarget |-> null]

findKing(board, color) ==
  LET ks == {sq \in Squares : at(board, squareToCoords(sq)) # null
                              /\ at(board, squareToCoords(sq))[1] = color
                              /\ at(board, squareToCoords(sq))[2] = "K"}
  IN  IF ks = {} THEN null
      ELSE CHOOSE sq \in ks :
             \A o \in ks : LET a == squareToCoords(sq)
                               b == squareToCoords(o)
                           IN  a.rank < b.rank \/ (a.rank = b.rank /\ a.file <= b.file)

pathClear(board, fromCoords, toCoords) ==
  LET rankDiff == toCoords.rank - fromCoords.rank
      fileDiff == toCoords.file - fromCoords.file
      steps == Max(Abs(rankDiff), Abs(fileDiff))
  IN  \A k \in 1 .. (steps - 1) :
        board[fromCoords.rank + k * Sign(rankDiff)][fromCoords.file + k * Sign(fileDiff)] = null

RECURSIVE isLegalMove(_, _, _, _, _)

isSquareUnderAttack(board, square, attackerColor) ==
  \E r \in Coord, f \in Coord :
    /\ board[r][f] # null
    /\ board[r][f][1] = attackerColor
    /\ isLegalMove(board, coordsToSquare([rank |-> r, file |-> f]), square,
                   SubSeq(board[r][f], 1, 2), dummyGameState)

isInCheck(board, color) ==
  LET kingSquare == findKing(board, color)
  IN  IF kingSquare = null THEN FALSE
      ELSE isSquareUnderAttack(board, kingSquare, IF color = "w" THEN "b" ELSE "w")

isLegalMove(board, from, to, piece, gameState) ==
  LET color == piece[1]
      type == piece[2]
      fromCoords == squareToCoords(from)
      toCoords == squareToCoords(to)
      destPiece == at(board, toCoords)
      rankDiff == toCoords.rank - fromCoords.rank
      fileDiff == toCoords.file - fromCoords.file
      direction == IF color = "w" THEN -1 ELSE 1
      startRank == IF color = "w" THEN 6 ELSE 1
      colorName == nameOf(color)
      opponentColor == IF color = "w" THEN "b" ELSE "w"
      isKingside == fileDiff > 0
  IN  IF destPiece # null /\ destPiece[1] = color THEN FALSE
      ELSE CASE type = "P" ->
                  \/ /\ fileDiff = 0
                     /\ destPiece = null
                     /\ \/ rankDiff = direction
                        \/ /\ rankDiff = 2 * direction
                           /\ fromCoords.rank = startRank
                           /\ board[fromCoords.rank + direction][fromCoords.file] = null
                  \/ /\ Abs(fileDiff) = 1
                     /\ rankDiff = direction
                     /\ destPiece # null
                  \/ /\ Abs(fileDiff) = 1
                     /\ rankDiff = direction
                     /\ destPiece = null
                     /\ gameState.enPassantTarget # null
                     /\ squareToCoords(gameState.enPassantTarget) = toCoords
             [] type = "R" ->
                  /\ ~(rankDiff # 0 /\ fileDiff # 0)
                  /\ pathClear(board, fromCoords, toCoords)
             [] type = "N" ->
                  \/ Abs(rankDiff) = 2 /\ Abs(fileDiff) = 1
                  \/ Abs(rankDiff) = 1 /\ Abs(fileDiff) = 2
             [] type = "B" ->
                  /\ Abs(rankDiff) = Abs(fileDiff)
                  /\ pathClear(board, fromCoords, toCoords)
             [] type = "Q" ->
                  /\ Abs(rankDiff) = Abs(fileDiff) \/ rankDiff = 0 \/ fileDiff = 0
                  /\ pathClear(board, fromCoords, toCoords)
             [] type = "K" ->
                  \/ Abs(rankDiff) <= 1 /\ Abs(fileDiff) <= 1
                  \/ /\ rankDiff = 0
                     /\ Abs(fileDiff) = 2
                     /\ IF isKingside THEN gameState.castlingRights[colorName].kingSide
                                      ELSE gameState.castlingRights[colorName].queenSide
                     /\ ~isInCheck(board, color)
                     /\ IF isKingside
                        THEN /\ board[fromCoords.rank][5] = null
                             /\ board[fromCoords.rank][6] = null
                             /\ ~isSquareUnderAttack(board,
                                   coordsToSquare([rank |-> fromCoords.rank, file |-> 5]),
                                   opponentColor)
                        ELSE /\ board[fromCoords.rank][1] = null
                             /\ board[fromCoords.rank][2] = null
                             /\ board[fromCoords.rank][3] = null
                             /\ ~isSquareUnderAttack(board,
                                   coordsToSquare([rank |-> fromCoords.rank, file |-> 3]),
                                   opponentColor)
             [] OTHER -> FALSE

handleCastling(board, color, move) ==
  LET fromCoords == squareToCoords(move.from)
      toCoords == squareToCoords(move.to)
      isKingside == toCoords.file > fromCoords.file
      rookFile == IF isKingside THEN 7 ELSE 0
      newRookFile == IF isKingside THEN 5 ELSE 3
      b1 == put(board, fromCoords.rank, fromCoords.file, null)
      b2 == put(b1, toCoords.rank, toCoords.file, <<color, "K", "">>)
      rookPiece == b2[fromCoords.rank][rookFile]
      b3 == put(b2, fromCoords.rank, rookFile, null)
  IN  put(b3, fromCoords.rank, newRookFile, rookPiece)

(* The search loop shared by isCheckmate and isStalemate: some own move     *)
(* passes isLegalMove and, played alone on a copy of the board, leaves the *)
(* colour's king out of check.  (isStalemate also skips from = to, which   *)
(* isLegalMove rejects anyway: the destination holds the mover's piece.)   *)
hasEscape(board, color, gameState) ==
  \E rank \in Coord, file \in Coord :
    /\ board[rank][file] # null
    /\ board[rank][file][1] = color
    /\ \E r \in Coord, f \in Coord :
         /\ isLegalMove(board, coordsToSquare([rank |-> rank, file |-> file]),
                        coordsToSquare([rank |-> r, file |-> f]),
                        SubSeq(board[rank][file], 1, 2), gameState)
         /\ ~isInCheck(put(put(board, rank, file, null), r, f, board[rank][file]), color)

isCheckmate(board, color, gameState) ==
  IF ~isInCheck(board, color) THEN FALSE ELSE ~hasEscape(board, color, gameState)

isStalemate(board, color, gameState) ==
  IF isInCheck(board, color) THEN FALSE ELSE ~hasEscape(board, color, gameState)

doesKingExist(board, color) == findKing(board, color) # null

(* gameLogic: timers and round resolution.  A game is the record of the    *)
(* room's fields; a move is [from, to, promotion, promotedPieceId] with    *)
(* promotion "" and promotedPieceId null while no choice is attached.      *)

isSet(result) == result \notin {"undefined", "null"}

checkTimerStatus(game) ==
  IF isSet(game.gameResult)
  THEN [game EXCEPT !.timers.whiteActive = FALSE, !.timers.blackActive = FALSE,
                    !.timerRunning = FALSE]
  ELSE IF game.pendingMoves.white # null /\ game.pendingMoves.black # null
  THEN [game EXCEPT !.timers.whiteActive = FALSE, !.timers.blackActive = FALSE]
  ELSE IF game.pendingMoves.white # null /\ game.pendingMoves.black = null
  THEN [game EXCEPT !.timers.whiteActive = FALSE, !.timers.blackActive = TRUE]
  ELSE IF game.pendingMoves.white = null /\ game.pendingMoves.black # null
  THEN [game EXCEPT !.timers.whiteActive = TRUE, !.timers.blackActive = FALSE]
  ELSE [game EXCEPT !.timers.whiteActive = TRUE, !.timers.blackActive = TRUE]

(* promotedPiece with the choice ignored: the pawn itself lands *)
promotedPieceStillPawn(move, piece) == piece

(* lines 2109-2125 *)
promotedPiece(move, piece) ==
  IF move.promotion # ""
  THEN IF move.promotedPieceId # null THEN move.promotedPieceId
       ELSE <<piece[1], move.promotion, piece[3]>>
  ELSE piece

(* lands with the swerve branch lost: a piece aimed at a piece that moved   *)
(* away is not put on the square                                           *)
landsUnlessSwerved(board, toCoords, otherPiece, otherMove, otherColor) ==
  \/ at(board, toCoords) = null
  \/ at(board, toCoords)[1] = otherColor /\ at(board, toCoords) # otherPiece

(* lines 2205-2225: a side's piece is put on its destination when the     *)
(* square held the other side's moving piece (which swerved away), was     *)
(* empty, or held an enemy piece                                           *)
lands(board, toCoords, otherPiece, otherMove, otherColor) ==
  \/ at(board, toCoords) = otherPiece /\ otherMove.from # otherMove.to
  \/ at(board, toCoords) = null
  \/ at(board, toCoords)[1] = otherColor

(* lines 2127-2226: the board after castling, en-passant removal, vacating *)
(* the sources and the collision / swerve placement                        *)
resolveBoard(board, whiteMove, blackMove) ==
  LET whitePiecePos == squareToCoords(whiteMove.from)
      blackPiecePos == squareToCoords(blackMove.from)
      whitePiece == at(board, whitePiecePos)
      blackPiece == at(board, blackPiecePos)
      whiteToCoords == squareToCoords(whiteMove.to)
      blackToCoords == squareToCoords(blackMove.to)
      promotedWhitePiece == promotedPiece(whiteMove, whitePiece)
      promotedBlackPiece == promotedPiece(blackMove, blackPiece)
      b1 == IF whitePiece # null /\ whitePiece[2] = "K"
               /\ Abs(whitePiecePos.file - whiteToCoords.file) = 2
            THEN handleCastling(board, "w", whiteMove) ELSE board
      b2 == IF blackPiece # null /\ blackPiece[2] = "K"
               /\ Abs(blackPiecePos.file - blackToCoords.file) = 2
            THEN handleCastling(b1, "b", blackMove) ELSE b1
      b3 == IF whitePiece # null /\ whitePiece[2] = "P"
               /\ Abs(whitePiecePos.file - whiteToCoords.file) = 1
               /\ whiteToCoords.rank = 2 /\ at(board, whiteToCoords) = null
            THEN put(b2, whiteToCoords.rank + 1, whiteToCoords.file, null) ELSE b2
      b4 == IF blackPiece # null /\ blackPiece[2] = "P"
               /\ Abs(blackPiecePos.file - blackToCoords.file) = 1
               /\ blackToCoords.rank = 5 /\ at(board, blackToCoords) = null
            THEN put(b3, blackToCoords.rank - 1, blackToCoords.file, null) ELSE b3
      b5 == put(b4, whitePiecePos.rank, whitePiecePos.file, null)
      b6 == put(b5, blackPiecePos.rank, blackPiecePos.file, null)
      b7 == IF lands(board, whiteToCoords, blackPiece, blackMove, "b")
            THEN put(b6, whiteToCoords.rank, whiteToCoords.file, promotedWhitePiece)
            ELSE b6
      b8 == IF lands(board, blackToCoords, whitePiece, whiteMove, "w")
            THEN put(b7, blackToCoords.rank, blackToCoords.file, promotedBlackPiece)
            ELSE b7
  IN  IF whiteMove.to = blackMove.to THEN b6 ELSE b8

(* lines 2127-2226 with the two colours' statements of every step in the   *)
(* other order: black's castling, en-passant removal, vacated source and   *)
(* placement each come before white's                                      *)
resolveBoardBlackFirst(board, whiteMove, blackMove) ==
  LET whitePiecePos == squareToCoords(whiteMove.from)
      blackPiecePos == squareToCoords(blackMove.from)
      whitePiece == at(board, whitePiecePos)
      blackPiece == at(board, blackPiecePos)
      whiteToCoords == squareToCoords(whiteMove.to)
      blackToCoords == squareToCoords(blackMove.to)
      b1 == IF blackPiece # null /\ blackPiece[2] = "K"
               /\ Abs(blackPiecePos.file - blackToCoords.file) = 2
            THEN handleCastling(board, "b", blackMove) ELSE board
      b2 == IF whitePiece # null /\ whitePiece[2] = "K"
               /\ Abs(whitePiecePos.file - whiteToCoords.file) = 2
            THEN handleCastling(b1, "w", whiteMove) ELSE b1
      b3 == IF blackPiece # null /\ blackPiece[2] = "P"
               /\ Abs(blackPiecePos.file - blackToCoords.file) = 1
               /\ blackToCoords.rank = 5 /\ at(board, blackToCoords) = null
            THEN put(b2, blackToCoords.rank - 1, blackToCoords.file, null) ELSE b2
      b4 == IF whitePiece # null /\ whitePiece[2] = "P"
               /\ Abs(whitePiecePos.file - whiteToCoords.file) = 1
               /\ whiteToCoords.rank = 2 /\ at(board, whiteToCoords) = null
            THEN put(b3, whiteToCoords.rank + 1, whiteToCoords.file, null) ELSE b3
      b5 == put(b4, blackPiecePos.rank, blackPiecePos.file, null)
      b6 == put(b5, whitePiecePos.rank, whitePiecePos.file, null)
      b7 == IF lands(board, blackToCoords, whitePiece, whiteMove, "w")
            THEN put(b6, blackToCoords.rank, blackToCoords.file,
                     promotedPiece(blackMove, blackPiece))
            ELSE b6
      b8 == IF lands(board, whiteToCoords, blackPiece, blackMove, "b")
            THEN put(b7, whiteToCoords.rank, whiteToCoords.file,
                     promotedPiece(whiteMove, whitePiece))
            ELSE b7
  IN  IF whiteMove.to = blackMove.to THEN b6 ELSE b8

(* lines 2179-2203 with the test of the black king before that of the      *)
(* white king                                                              *)
collisionResultBlackFirst(whitePiece, blackPiece, whiteMove, blackMove) ==
  IF whiteMove.to # blackMove.to THEN "null"
  ELSE IF whitePiece # null /\ whitePiece[2] = "K" /\ blackPiece # null /\ blackPiece[2] = "K"
  THEN "draw"
  ELSE IF whitePiece # null /\ whitePiece[2] = "K" THEN "blackWins"
  ELSE IF blackPiece # null /\ blackPiece[2] = "K" THEN "whiteWins"
  ELSE "null"

(* lines 2179-2203: the result the collision branch assigns *)
collisionResult(whitePiece, blackPiece, whiteMove, blackMove) ==
  IF whiteMove.to # blackMove.to THEN "null"
  ELSE IF whitePiece # null /\ whitePiece[2] = "K" /\ blackPiece # null /\ blackPiece[2] = "K"
  THEN "draw"
  ELSE IF blackPiece # null /\ blackPiece[2] = "K" THEN "whiteWins"
  ELSE IF whitePiece # null /\ whitePiece[2] = "K" THEN "blackWins"
  ELSE "null"

(* newEnPassantTarget with the square the pawn lands on as the target *)
newEnPassantTargetAtDestination(board, whiteMove, blackMove) ==
  IF at(board, squareToCoords(blackMove.from)) # null
     /\ at(board, squareToCoords(blackMove.from))[2] = "P"
     /\ Abs(squareToCoords(blackMove.from).rank - squareToCoords(blackMove.to).rank) = 2
  THEN blackMove.to
  ELSE IF at(board, squareToCoords(whiteMove.from)) # null
          /\ at(board, squareToCoords(whiteMove.from))[2] = "P"
          /\ Abs(squareToCoords(whiteMove.from).rank - squareToCoords(whiteMove.to).rank) = 2
  THEN whiteMove.to
  ELSE null

(* lines 2106-2152 *)
newEnPassantTarget(board, whiteMove, blackMove) ==
  LET whitePiecePos == squareToCoords(whiteMove.from)
      blackPiecePos == squareToCoords(blackMove.from)
      whitePiece == at(board, whitePiecePos)
      blackPiece == at(board, blackPiecePos)
  IN  IF blackPiece # null /\ blackPiece[2] = "P"
         /\ Abs(blackPiecePos.rank - squareToCoords(blackMove.to).rank) = 2
      THEN coordsToSquare([rank |-> blackPiecePos.rank + 1, file |-> blackPiecePos.file])
      ELSE IF whitePiece # null /\ whitePiece[2] = "P"
              /\ Abs(whitePiecePos.rank - squareToCoords(whiteMove.to).rank) = 2
      THEN coordsToSquare([rank |-> whitePiecePos.rank - 1, file |-> whitePiecePos.file])
      ELSE null

(* newCastlingRights without the revocation for a captured rook *)
newCastlingRightsOwnMovesOnly(rights, board, whiteMove, blackMove) ==
  LET whitePiece == at(board, squareToCoords(whiteMove.from))
      blackPiece == at(board, squareToCoords(blackMove.from))
      revoked(colorName, side) ==
        LET piece == IF colorName = "white" THEN whitePiece ELSE blackPiece
            move == IF colorName = "white" THEN whiteMove ELSE blackMove
            digit == IF colorName = "white" THEN 1 ELSE 8
            corner == IF side = "queenSide" THEN <<0, digit>> ELSE <<7, digit>>
        IN  \/ piece # null /\ piece[2] = "K"
            \/ piece # null /\ piece[2] = "R" /\ move.from = corner
  IN  [colorName \in ColorNames |->
         [side \in {"kingSide", "queenSide"} |->
            IF revoked(colorName, side) THEN FALSE ELSE rights[colorName][side]]]

(* lines 2137-2152 with black's assignment before white's *)
newEnPassantTargetBlackFirst(board, whiteMove, blackMove) ==
  IF at(board, squareToCoords(whiteMove.from)) # null
     /\ at(board, squareToCoords(whiteMove.from))[2] = "P"
     /\ Abs(squareToCoords(whiteMove.from).rank - squareToCoords(whiteMove.to).rank) = 2
  THEN coordsToSquare([rank |-> squareToCoords(whiteMove.from).rank - 1,
                       file |-> squareToCoords(whiteMove.from).file])
  ELSE IF at(board, squareToCoords(blackMove.from)) # null
          /\ at(board, squareToCoords(blackMove.from))[2] = "P"
          /\ Abs(squareToCoords(blackMove.from).rank - squareToCoords(blackMove.to).rank) = 2
  THEN coordsToSquare([rank |-> squareToCoords(blackMove.from).rank + 1,
                       file |-> squareToCoords(blackMove.from).file])
  ELSE null

(* lines 2228-2274 *)
newCastlingRights(rights, board, whiteMove, blackMove) ==
  LET whitePiece == at(board, squareToCoords(whiteMove.from))
      blackPiece == at(board, squareToCoords(blackMove.from))
      whiteTarget == at(board, squareToCoords(whiteMove.to))
      blackTarget == at(board, squareToCoords(blackMove.to))
      revoked(colorName, side) ==
        LET piece == IF colorName = "white" THEN whitePiece ELSE blackPiece
            move == IF colorName = "white" THEN whiteMove ELSE blackMove
            oppTarget == IF colorName = "white" THEN blackTarget ELSE whiteTarget
            oppMove == IF colorName = "white" THEN blackMove ELSE whiteMove
            digit == IF colorName = "white" THEN 1 ELSE 8
            corner == IF side = "queenSide" THEN <<0, digit>> ELSE <<7, digit>>
        IN  \/ piece # null /\ piece[2] = "K"
            \/ piece # null /\ piece[2] = "R" /\ move.from = corner
            \/ oppTarget # null /\ oppTarget[2] = "R" /\ oppMove.to = corner
  IN  [colorName \in ColorNames |->
         [side \in {"kingSide", "queenSide"} |->
            IF revoked(colorName, side) THEN FALSE ELSE rights[colorName][side]]]

(* lines 2307-2319 *)
eliminationResult(collision, whiteKingExists, blackKingExists) ==
  IF isSet(collision) THEN collision
  ELSE IF ~whiteKingExists /\ ~blackKingExists THEN "draw"
  ELSE IF ~whiteKingExists THEN "blackWins"
  ELSE IF ~blackKingExists THEN "whiteWins"
  ELSE "null"

(* checkmateResult with a winner that is itself in check held to a draw *)
checkmateResultBothChecked(whiteInCheck, blackInCheck, whiteMated, blackMated) ==
  IF whiteInCheck /\ blackInCheck /\ (whiteMated \/ blackMated) THEN "draw"
  ELSE IF whiteInCheck /\ whiteMated THEN "blackWins"
  ELSE IF blackInCheck /\ blackMated THEN "whiteWins"
  ELSE "null"

(* lines 2321-2334 *)
checkmateResult(whiteInCheck, blackInCheck, whiteMated, blackMated) ==
  IF whiteInCheck /\ whiteMated THEN "blackWins"
  ELSE IF blackInCheck /\ blackMated THEN "whiteWins"
  ELSE IF whiteInCheck /\ blackInCheck /\ whiteMated /\ blackMated THEN "draw"
  ELSE "null"

(* lines 2336-2351 *)
stalemateResult(whiteStalemated, blackStalemated) ==
  IF whiteStalemated /\ blackStalemated THEN "draw"
  ELSE IF whiteStalemated THEN "draw"
  ELSE IF blackStalemated THEN "draw"
  ELSE "null"

(* lines 2299-2351: the terminal-state evaluation on the new board *)
evaluateResult(collision, newBoard, game) ==
  LET whiteInCheck == isInCheck(newBoard, "w")
      blackInCheck == isInCheck(newBoard, "b")
      whiteKingExists == doesKingExist(newBoard, "w")
      blackKingExists == doesKingExist(newBoard, "b")
      r1 == eliminationResult(collision, whiteKingExists, blackKingExists)
      r2 == IF isSet(r1) THEN r1
            ELSE checkmateResult(whiteInCheck, blackInCheck,
                                 isCheckmate(newBoard, "w", game),
                                 isCheckmate(newBoard, "b", game))
  IN  IF isSet(r2) THEN r2
      ELSE stalemateResult(
             whiteKingExists /\ ~whiteInCheck /\ isStalemate(newBoard, "w", game),
             blackKingExists /\ ~blackInCheck /\ isStalemate(newBoard, "b", game))

(* lines 2095-2104: the piece on a move's source square *)
movedPiece(board, move) == at(board, squareToCoords(move.from))

(* recordRound with the check flags computed on the board before the round *)
recordRoundChecksBefore(game, board, newBoard, whiteMove, blackMove) ==
  [game EXCEPT
     !.enPassantTarget = newEnPassantTarget(board, whiteMove, blackMove),
     !.castlingRights = newCastlingRights(game.castlingRights, board, whiteMove, blackMove),
     !.position = boardToPosition(newBoard),
     !.moveHistory = Append(game.moveHistory,
        [white |-> [from |-> whiteMove.from, to |-> whiteMove.to,
                    piece |-> movedPiece(board, whiteMove),
                    promotion |-> whiteMove.promotion],
         black |-> [from |-> blackMove.from, to |-> blackMove.to,
                    piece |-> movedPiece(board, blackMove),
                    promotion |-> blackMove.promotion]]),
     !.lastMovedPieces = [white |-> promotedPiece(whiteMove, movedPiece(board, whiteMove)),
                          black |-> promotedPiece(blackMove, movedPiece(board, blackMove))],
     !.inCheck = [white |-> isInCheck(board, "w"),
                  black |-> isInCheck(board, "b")]]

(* lines 2106-2301: the room's fields after the round, the result apart *)
recordRound(game, board, newBoard, whiteMove, blackMove) ==
  [game EXCEPT
     !.enPassantTarget = newEnPassantTarget(board, whiteMove, blackMove),
     !.castlingRights = newCastlingRights(game.castlingRights, board, whiteMove, blackMove),
     !.position = boardToPosition(newBoard),
     !.moveHistory = Append(game.moveHistory,
        [white |-> [from |-> whiteMove.from, to |-> whiteMove.to,
                    piece |-> movedPiece(board, whiteMove),
                    promotion |-> whiteMove.promotion],
         black |-> [from |-> blackMove.from, to |-> blackMove.to,
                    piece |-> movedPiece(board, blackMove),
                    promotion |-> blackMove.promotion]]),
     !.lastMovedPieces = [white |-> promotedPiece(whiteMove, movedPiece(board, whiteMove)),
                          black |-> promotedPiece(blackMove, movedPiece(board, blackMove))],
     !.inCheck = [white |-> isInCheck(newBoard, "w"),
                  black |-> isInCheck(newBoard, "b")]]

(* lines 2353-2361: the result is stored; a terminal result stops the timers *)
storeResult(game, result) ==
  IF isSet(result)
  THEN [game EXCEPT !.gameResult = result, !.timerRunning = FALSE,
                    !.timers.whiteActive = FALSE, !.timers.blackActive = FALSE]
  ELSE [game EXCEPT !.gameResult = result]

(* lines 2299-2361: the result is evaluated on the new board with the      *)
(* room's updated rights and en-passant target                             *)
decideRound(recorded, board, newBoard, whiteMove, blackMove) ==
  storeResult(recorded,
              evaluateResult(collisionResult(movedPiece(board, whiteMove),
                                             movedPiece(board, blackMove),
                                             whiteMove, blackMove),
                             newBoard, recorded))

(* playRound with the castling rights left as they were before the round *)
playRoundRightsKept(game, board, newBoard, whiteMove, blackMove) ==
  decideRound([recordRound(game, board, newBoard, whiteMove, blackMove)
                 EXCEPT !.castlingRights = game.castlingRights],
              board, newBoard, whiteMove, blackMove)

playRound(game, board, newBoard, whiteMove, blackMove) ==
  decideRound(recordRound(game, board, newBoard, whiteMove, blackMove),
              board, newBoard, whiteMove, blackMove)

(* resolveOn with the round recorded on the board left as it was *)
resolveOnBoardKept(game, board, whiteMove, blackMove) ==
  playRound(game, board, board, whiteMove, blackMove)

resolveOn(game, board, whiteMove, blackMove) ==
  playRound(game, board, resolveBoard(board, whiteMove, blackMove), whiteMove, blackMove)

processMoves(game) ==
  resolveOn(game, positionToBoard(game.position),
            game.pendingMoves.white, game.pendingMoves.black)

(* server: the submitMove and promotePawn handlers.  Each returns the room *)
(* after the event and the event emitted to the sending socket.            *)

NoSocket == "null"

colorNameOf(game, socket) ==
  IF socket = game.whiteId THEN "white"
  ELSE IF socket = game.blackId THEN "black" ELSE "null"

(* lines 358-385: some other piece of the colour passes isLegalMove *)
hasOtherValidMoves(board, color, piece, game) ==
  \E r \in Coord, f \in Coord :
    /\ board[r][f] # null
    /\ board[r][f][1] = color
    /\ board[r][f] # piece
    /\ \E tr \in Coord, tf \in Coord :
         isLegalMove(board, coordsToSquare([rank |-> r, file |-> f]),
                     coordsToSquare([rank |-> tr, file |-> tf]),
                     SubSeq(board[r][f], 1, 2), game)

(* repeatRejected with the king exception not asking for the check flag *)
repeatRejectedKingFree(game, colorName, piece) ==
  /\ piece = game.lastMovedPieces[colorName]
  /\ ~(piece[2] = "K")
  /\ hasOtherValidMoves(positionToBoard(game.position), colorOf(colorName), piece, game)

(* lines 350-394: the submission is refused as a repeated piece; the king  *)
(* exception (lines 353 and 356) is a king whose colour's check flag is set *)
repeatRejected(game, colorName, piece) ==
  /\ piece = game.lastMovedPieces[colorName]
  /\ ~(piece[2] = "K" /\ game.inCheck[colorName])
  /\ hasOtherValidMoves(positionToBoard(game.position), colorOf(colorName), piece, game)

isPawnPromotion(piece, to) ==
  /\ piece[2] = "P"
  /\ \/ piece[1] = "w" /\ to[2] = 8
     \/ piece[1] = "b" /\ to[2] = 1

(* resolveIfBoth with the stored moves left in their slots *)
resolveIfBothKeepsPending(game) ==
  IF game.pendingMoves.white # null /\ game.pendingMoves.black # null
  THEN [processMoves(game) EXCEPT !.timers.whiteActive = TRUE,
                                  !.timers.blackActive = TRUE]
  ELSE game

(* lines 441-468 and 274-301: resolve the round when both moves are stored *)
resolveIfBoth(game) ==
  IF game.pendingMoves.white # null /\ game.pendingMoves.black # null
  THEN [processMoves(game) EXCEPT !.pendingMoves = [white |-> null, black |-> null],
                                  !.timers.whiteActive = TRUE,
                                  !.timers.blackActive = TRUE]
  ELSE game

(* tempBoard with the piece taken off its source and never put down *)
tempBoardSourceOnly(board, move, piece) ==
  put(board, squareToCoords(move.from).rank, squareToCoords(move.from).file, null)

(* lines 403-418: the move played alone on a copy of the board *)
tempBoard(board, move, piece) ==
  put(put(board, squareToCoords(move.from).rank, squareToCoords(move.from).file, null),
      squareToCoords(move.to).rank, squareToCoords(move.to).file, piece)

(* lines 333-469, on the room with gameStarted set (lines 319-322) *)
submitPiece(game, colorName, move, board, piece) ==
  IF piece = null
  THEN [game |-> game, emit |-> "error: No piece at starting position"]
  ELSE IF piece[1] # colorOf(colorName)
  THEN [game |-> game, emit |-> "error: Not your piece"]
  ELSE IF repeatRejected(game, colorName, piece)
  THEN [game |-> game, emit |-> "error: Cannot move the same piece twice in a row"]
  ELSE IF ~isLegalMove(board, move.from, move.to, SubSeq(piece, 1, 2), game)
  THEN [game |-> game, emit |-> "error: Illegal move"]
  ELSE IF game.inCheck[colorName]
          /\ isInCheck(tempBoard(board, move, piece), colorOf(colorName))
  THEN [game |-> game,
        emit |-> "error: Your king is in check! You must make a move that resolves the check."]
  ELSE IF isPawnPromotion(piece, move.to)
  THEN [game |-> [game EXCEPT !.pendingMoves[colorName] = move],
        emit |-> "promotionNeeded"]
  ELSE [game |-> resolveIfBoth(checkTimerStatus(
                   [game EXCEPT !.pendingMoves[colorName] = move])),
        emit |-> "moveAccepted"]

(* submitOn with the move stored without a test of its piece or legality *)
submitOnUnchecked(game, colorName, move, board) ==
  [game |-> [game EXCEPT !.pendingMoves[colorName] = move], emit |-> "promotionNeeded"]

submitOn(game, colorName, move, board) ==
  submitPiece(game, colorName, move, board, movedPiece(board, move))

(* submitMove with the en-passant target reset by every player's submission *)
submitMoveResetsTarget(game, socket, move) ==
  IF colorNameOf(game, socket) = "null"
  THEN [game |-> game, emit |-> "error: You are not a player in this game"]
  ELSE [submitOn([game EXCEPT !.gameStarted = TRUE], colorNameOf(game, socket), move,
                 positionToBoard(game.position))
          EXCEPT !.game.enPassantTarget = null]

submitMove(game, socket, move) ==
  IF colorNameOf(game, socket) = "null"
  THEN [game |-> game, emit |-> "error: You are not a player in this game"]
  ELSE submitOn([game EXCEPT !.gameStarted = TRUE], colorNameOf(game, socket), move,
                positionToBoard(game.position))

PromotionTypes == {"Q", "R", "N", "B"}

(* promotePiece without the comparison of the square with the pending     *)
(* move's destination                                                      *)
promotePieceAnySquare(game, colorName, pendingMove, square, pieceType, piece) ==
  IF piece = null \/ piece[1] # colorOf(colorName) \/ piece[2] # "P"
  THEN [game |-> game, emit |-> "error: No pawn found for promotion"]
  ELSE IF \/ colorOf(colorName) = "w" /\ square[2] # 8
          \/ colorOf(colorName) = "b" /\ square[2] # 1
  THEN [game |-> game, emit |-> "error: Pawn is not moving to the promotion rank"]
  ELSE [game |-> resolveIfBoth(checkTimerStatus(
                   [game EXCEPT !.pendingMoves[colorName].promotion = pieceType,
                                !.pendingMoves[colorName].promotedPieceId =
                                   <<colorOf(colorName), pieceType, piece[3]>>])),
        emit |-> "promotionConfirmed"]

(* lines 225-302: the pending move gets the choice and the round resolves  *)
(* when both moves are stored                                              *)
promotePiece(game, colorName, pendingMove, square, pieceType, piece) ==
  IF pendingMove.to # square
  THEN [game |-> game, emit |-> "error: Square mismatch for promotion"]
  ELSE IF piece = null \/ piece[1] # colorOf(colorName) \/ piece[2] # "P"
  THEN [game |-> game, emit |-> "error: No pawn found for promotion"]
  ELSE IF \/ colorOf(colorName) = "w" /\ square[2] # 8
          \/ colorOf(colorName) = "b" /\ square[2] # 1
  THEN [game |-> game, emit |-> "error: Pawn is not moving to the promotion rank"]
  ELSE [game |-> resolveIfBoth(checkTimerStatus(
                   [game EXCEPT !.pendingMoves[colorName].promotion = pieceType,
                                !.pendingMoves[colorName].promotedPieceId =
                                   <<colorOf(colorName), pieceType, piece[3]>>])),
        emit |-> "promotionConfirmed"]

promotePawn(game, socket, square, pieceType) ==
  IF colorNameOf(game, socket) = "null"
  THEN [game |-> game, emit |-> "error: You are not a player in this game"]
  ELSE IF pieceType \notin PromotionTypes
  THEN [game |-> game, emit |-> "error: Invalid promotion piece type"]
  ELSE IF game.pendingMoves[colorNameOf(game, socket)] = null
  THEN [game |-> game, emit |-> "error: No pending move requiring promotion"]
  ELSE promotePiece(game, colorNameOf(game, socket),
                    game.pendingMoves[colorNameOf(game, socket)], square, pieceType,
                    movedPiece(positionToBoard(game.position),
                               game.pendingMoves[colorNameOf(game, socket)]))

(* Rooms.  Besides the room created by createGameState, the rooms below    *)
(* are positions of games in progress; moveHistory then holds the rounds   *)
(* resolved since that position.                                           *)

FileIndex == [a |-> 0, b |-> 1, c |-> 2, d |-> 3, e |-> 4, f |-> 5, g |-> 6, h |-> 7]

Sq(letter, digit) == <<FileIndex[letter], digit>>

Move(from, to) == [from |-> from, to |-> to, promotion |-> "", promotedPieceId |-> null]

place(pairs) == [sq \in {pr[1] : pr \in pairs} |-> (CHOOSE pr \in pairs : pr[1] = sq)[2]]

TimeControl == 300

noRights == [kingSide |-> FALSE, queenSide |-> FALSE]

allRights == [kingSide |-> TRUE, queenSide |-> TRUE]

createGameState(timeControl) ==
  [position |-> getStartingPosition,
   whiteId |-> NoSocket, blackId |-> NoSocket,
   pendingMoves |-> [white |-> null, black |-> null],
   lastMovedPieces |-> [white |-> null, black |-> null],
   inCheck |-> [white |-> FALSE, black |-> FALSE],
   castlingRights |-> [white |-> allRights, black |-> allRights],
   enPassantTarget |-> null,
   moveHistory |-> <<>>,
   timers |-> [timeControl |-> timeControl, white |-> timeControl, black |-> timeControl,
               whiteActive |-> TRUE, blackActive |-> TRUE],
   timerRunning |-> FALSE,
   gameStarted |-> FALSE,
   gameResult |-> "undefined",
   timerInterval |-> "undefined"]

(* both players joined: lines 52-93 of the joinGame handler *)
joined(game) ==
  [game EXCEPT !.whiteId = "s1", !.blackId = "s2", !.timerRunning = TRUE,
               !.timerInterval = "set"]

(* a game in progress: the given position, the pieces moved in the round   *)
(* that produced it, the rights and target that round left, no terminal    *)
(* result, and the check flags processMoves computed for the position      *)
inProgress(pos, lastWhite, lastBlack, rights, target) ==
  [joined(createGameState(TimeControl)) EXCEPT
     !.position = pos,
     !.lastMovedPieces = [white |-> lastWhite, black |-> lastBlack],
     !.castlingRights = rights,
     !.enPassantTarget = target,
     !.inCheck = [white |-> isInCheck(positionToBoard(pos), "w"),
                  black |-> isInCheck(positionToBoard(pos), "b")],
     !.gameStarted = TRUE,
     !.gameResult = "null"]

(* white may castle either side; a black knight eyes g1, the black king c1 *)
CastlingRoom ==
  inProgress(place({<<Sq("e", 1), <<"w", "K", "">>>>, <<Sq("a", 1), <<"w", "R", "1">>>>,
                    <<Sq("h", 1), <<"w", "R", "2">>>>, <<Sq("b", 2), <<"b", "K", "">>>>,
                    <<Sq("h", 3), <<"b", "N", "1">>>>}),
             null, null, [white |-> allRights, black |-> noRights], null)

(* black has just played d7-d5 past the white e5 pawn; white's b7 pawn and *)
(* black's g2 pawn are one step from promotion                             *)
PawnRoom ==
  inProgress(place({<<Sq("g", 4), <<"w", "K", "">>>>, <<Sq("e", 5), <<"w", "P", "e">>>>,
                    <<Sq("b", 7), <<"w", "P", "b">>>>, <<Sq("c", 7), <<"b", "K", "">>>>,
                    <<Sq("d", 5), <<"b", "P", "d">>>>, <<Sq("a", 8), <<"b", "R", "1">>>>,
                    <<Sq("g", 2), <<"b", "P", "g">>>>}),
             <<"w", "K", "">>, <<"b", "P", "d">>,
             [white |-> noRights, black |-> noRights], Sq("d", 6))

(* both rooks are one move from a back-rank mate; the b6 pawn keeps the    *)
(* black rook from interposing on b8                                       *)
BackRankRoom(withPawn) ==
  inProgress(place({<<Sq("h", 1), <<"w", "K", "">>>>, <<Sq("g", 2), <<"w", "P", "g">>>>,
                    <<Sq("h", 2), <<"w", "P", "h">>>>, <<Sq("a", 7), <<"w", "R", "1">>>>,
                    <<Sq("h", 8), <<"b", "K", "">>>>, <<Sq("g", 7), <<"b", "P", "g">>>>,
                    <<Sq("h", 7), <<"b", "P", "h">>>>, <<Sq("b", 2), <<"b", "R", "1">>>>}
                   \cup (IF withPawn THEN {<<Sq("b", 6), <<"b", "P", "b">>>>} ELSE {})),
             <<"w", "K", "">>, <<"b", "K", "">>,
             [white |-> noRights, black |-> noRights], null)

(* king and queen against a bare king in the corner *)
QueenRoom ==
  inProgress(place({<<Sq("c", 5), <<"w", "K", "">>>>, <<Sq("c", 6), <<"w", "Q", "">>>>,
                    <<Sq("b", 8), <<"b", "K", "">>>>}),
             <<"w", "K", "">>, null,
             [white |-> noRights, black |-> noRights], null)

(* the white king shields the black king from the a8 rook; a black knight  *)
(* can reach the squares the king can step to                              *)
DiscoveryRoom ==
  inProgress(place({<<Sq("d", 8), <<"w", "K", "">>>>, <<Sq("a", 8), <<"w", "R", "1">>>>,
                    <<Sq("h", 8), <<"b", "K", "">>>>, <<Sq("g", 7), <<"b", "P", "g">>>>,
                    <<Sq("h", 7), <<"b", "P", "h">>>>, <<Sq("b", 6), <<"b", "N", "1">>>>}),
             <<"w", "R", "1">>, <<"b", "K", "">>,
             [white |-> noRights, black |-> noRights], null)

(* white may castle king side, which brings the h1 rook to the f-file of    *)
(* the boxed-in black king; the black knight eyes g1                       *)
RookFileRoom ==
  inProgress(place({<<Sq("e", 1), <<"w", "K", "">>>>, <<Sq("h", 1), <<"w", "R", "2">>>>,
                    <<Sq("f", 8), <<"b", "K", "">>>>, <<Sq("e", 8), <<"b", "R", "1">>>>,
                    <<Sq("g", 8), <<"b", "R", "2">>>>, <<Sq("e", 7), <<"b", "P", "e">>>>,
                    <<Sq("g", 7), <<"b", "P", "g">>>>, <<Sq("h", 3), <<"b", "N", "1">>>>}),
             null, null,
             [white |-> [kingSide |-> TRUE, queenSide |-> FALSE], black |-> noRights], null)

(* black has just checked the white king along the e-file; white's rook,  *)
(* moved in the round before, could interpose on e2                        *)
CheckRoom ==
  inProgress(place({<<Sq("e", 1), <<"w", "K", "">>>>, <<Sq("a", 2), <<"w", "R", "1">>>>,
                    <<Sq("e", 8), <<"b", "R", "1">>>>, <<Sq("h", 8), <<"b", "K", "">>>>}),
             <<"w", "R", "1">>, <<"b", "R", "1">>,
             [white |-> noRights, black |-> noRights], null)

(* the a2 and h7 pawns can advance two ranks past the b4 and g5 pawns *)
EnPassantRoom ==
  inProgress(place({<<Sq("e", 1), <<"w", "K", "">>>>, <<Sq("a", 2), <<"w", "P", "a">>>>,
                    <<Sq("g", 5), <<"w", "P", "g">>>>, <<Sq("e", 8), <<"b", "K", "">>>>,
                    <<Sq("h", 7), <<"b", "P", "h">>>>, <<Sq("b", 4), <<"b", "P", "b">>>>}),
             <<"w", "K", "">>, <<"b", "K", "">>,
             [white |-> noRights, black |-> noRights], null)

(* the black king has no square; once the a2 and h7 pawns have advanced   *)
(* two ranks black's pawns are blocked but for the capture b4xa3           *)
BlockedRoom ==
  inProgress(place({<<Sq("e", 1), <<"w", "K", "">>>>, <<Sq("f", 7), <<"w", "Q", "">>>>,
                    <<Sq("a", 2), <<"w", "P", "a">>>>, <<Sq("b", 3), <<"w", "P", "b">>>>,
                    <<Sq("h", 4), <<"w", "P", "h">>>>, <<Sq("h", 8), <<"b", "K", "">>>>,
                    <<Sq("h", 7), <<"b", "P", "h">>>>, <<Sq("b", 4), <<"b", "P", "b">>>>}),
             <<"w", "Q", "">>, <<"b", "K", "">>,
             [white |-> noRights, black |-> noRights], null)

Rooms ==
  {joined(createGameState(TimeControl)), CastlingRoom, PawnRoom, BlockedRoom,
   BackRankRoom(TRUE), BackRankRoom(FALSE), QueenRoom, DiscoveryRoom, RookFileRoom,
   CheckRoom, EnPassantRoom}

(* the one room id of the model: games is {RoomId} while games[roomId]   *)
(* holds a room and {} otherwise                                           *)
RoomId == "room"

Game ==
  [position |-> position, whiteId |-> whiteId, blackId |-> blackId,
   pendingMoves |-> pendingMoves, lastMovedPieces |-> lastMovedPieces,
   inCheck |-> inCheck, castlingRights |-> castlingRights,
   enPassantTarget |-> enPassantTarget, moveHistory |-> moveHistory,
   timers |-> timers, timerRunning |-> timerRunning, gameStarted |-> gameStarted,
   gameResult |-> gameResult, timerInterval |-> timerInterval]

Holds(game) ==
  /\ position = game.position
  /\ whiteId = game.whiteId
  /\ blackId = game.blackId
  /\ pendingMoves = game.pendingMoves
  /\ lastMovedPieces = game.lastMovedPieces
  /\ inCheck = game.inCheck
  /\ castlingRights = game.castlingRights
  /\ enPassantTarget = game.enPassantTarget
  /\ moveHistory = game.moveHistory
  /\ timers = game.timers
  /\ timerRunning = game.timerRunning
  /\ gameStarted = game.gameStarted
  /\ gameResult = game.gameResult
  /\ timerInterval = game.timerInterval

IsRoom(game) == Holds(game) /\ games = {RoomId}

Becomes(game) ==
  /\ position' = game.position
  /\ whiteId' = game.whiteId
  /\ blackId' = game.blackId
  /\ pendingMoves' = game.pendingMoves
  /\ lastMovedPieces' = game.lastMovedPieces
  /\ inCheck' = game.inCheck
  /\ castlingRights' = game.castlingRights
  /\ enPassantTarget' = game.enPassantTarget
  /\ moveHistory' = game.moveHistory
  /\ timers' = game.timers
  /\ timerRunning' = game.timerRunning
  /\ gameStarted' = game.gameStarted
  /\ gameResult' = game.gameResult
  /\ timerInterval' = game.timerInterval

(* The moves the server stores for a colour in a room: the submissions it  *)
(* accepts, and for a promotion each choice promotePawn can attach (or     *)
(* none yet).                                                              *)
submittable(game, colorName) ==
  LET socket == IF colorName = "white" THEN game.whiteId ELSE game.blackId
  IN  {move \in {Move(sq[1], sq[2]) : sq \in Squares \X Squares} :
         submitMove(game, socket, move).emit \in {"moveAccepted", "promotionNeeded"}}

storable(game, colorName) ==
  LET socket == IF colorName = "white" THEN game.whiteId ELSE game.blackId
  IN  UNION {IF submitMove(game, socket, move).emit = "moveAccepted" THEN {move}
             ELSE {move} \cup
                  {promotePawn([game EXCEPT !.pendingMoves[colorName] = move],
                               socket, move.to, t).game.pendingMoves[colorName] :
                     t \in PromotionTypes} :
             move \in submittable(game, colorName)}

(* Round resolution on its own: a room with one stored move per colour,    *)
(* resolved once.                                                          *)
InitResolve ==
  \E room \in Rooms :
    \E whiteMove \in storable(room, "white") :
      \E blackMove \in storable(room, "black") :
        /\ IsRoom([room EXCEPT !.pendingMoves = [white |-> whiteMove, black |-> blackMove],
                               !.gameStarted = TRUE])
        /\ emitted = "none"

ResolveRound ==
  /\ pendingMoves.white # null
  /\ pendingMoves.black # null
  /\ \E resolved \in {resolveIfBoth(Game)} : Becomes(resolved)
  /\ emitted' = "gameState"
  /\ UNCHANGED games

NextResolve == ResolveRound

SpecResolve == InitResolve /\ [][NextResolve]_vars

(* The server: both players joined, each event handled as one step.  The   *)
(* clients send the moves of InputMoves and the promotion choices of       *)
(* InputChoices; no event is handled once MaxRounds rounds are resolved.   *)

MaxRounds == 2

Sockets == {"s1", "s2", "s3"}

mv(fromLetter, fromDigit, toLetter, toDigit) ==
  Move(Sq(fromLetter, fromDigit), Sq(toLetter, toDigit))

InputMoves ==
  { mv("b", 7, "b", 8), mv("e", 5, "d", 6), mv("e", 5, "e", 6), mv("g", 4, "g", 3),
    mv("a", 8, "a", 7), mv("g", 2, "g", 1), mv("c", 7, "d", 6), mv("d", 5, "d", 4),
    mv("c", 6, "b", 6), mv("c", 5, "c", 4), mv("b", 6, "b", 7),
    mv("b", 8, "a", 8), mv("a", 8, "b", 8),
    mv("a", 7, "b", 7), mv("b", 7, "b", 1), mv("a", 7, "a", 8), mv("h", 2, "h", 3),
    mv("h", 1, "g", 1),
    mv("b", 2, "b", 1), mv("h", 7, "h", 6), mv("b", 1, "b", 8), mv("h", 8, "g", 8),
    mv("e", 1, "g", 1), mv("e", 1, "c", 1), mv("e", 1, "e", 2), mv("e", 2, "e", 3),
    mv("h", 3, "g", 1), mv("b", 2, "c", 1), mv("b", 2, "b", 3),
    mv("e", 2, "e", 4), mv("e", 7, "e", 5), mv("e", 1, "d", 1),
    mv("d", 7, "d", 5) }

InputChoices == {<<Sq("b", 8), "Q">>, <<Sq("g", 1), "N">>, <<Sq("b", 8), "K">>,
                 <<Sq("a", 8), "Q">>}

Init ==
  /\ \E room \in Rooms : IsRoom(room)
  /\ emitted = "none"

SubmitMove(socket, move) ==
  /\ Len(moveHistory) < MaxRounds
  /\ IF games = {}
     THEN emitted' = "error: Game not found" /\ UNCHANGED roomVars
     ELSE \E handled \in {submitMove(Game, socket, move)} :
            /\ Becomes(handled.game)
            /\ emitted' = handled.emit
  /\ UNCHANGED games

PromotePawn(socket, square, pieceType) ==
  /\ Len(moveHistory) < MaxRounds
  /\ IF games = {}
     THEN emitted' = "error: Game not found" /\ UNCHANGED roomVars
     ELSE \E handled \in {promotePawn(Game, socket, square, pieceType)} :
            /\ Becomes(handled.game)
            /\ emitted' = handled.emit
  /\ UNCHANGED games

Next ==
  \/ \E socket \in Sockets, move \in InputMoves : SubmitMove(socket, move)
  \/ \E socket \in Sockets, choice \in InputChoices : PromotePawn(socket, choice[1], choice[2])

Spec == Init /\ [][Next]_vars

(* The lobby and the clocks: joinGame, updateSettings, disconnect and the  *)
(* timer interval's callback.  A time-control value arrives as text;       *)
(* parseInt gives the set holding its number, or the empty set for NaN.    *)

Numerals == [n \in {"-1", "0", "1", "2"} |->
               CASE n = "-1" -> -1 [] n = "0" -> 0 [] n = "1" -> 1 [] n = "2" -> 2]

parseInt(text) == IF text \in DOMAIN Numerals THEN {Numerals[text]} ELSE {}

isNaN(parsed) == parsed = {}

numberOf(parsed) == CHOOSE n \in parsed : TRUE

(* lines 37-46: parseInt(data.timeControl) || 300, and 300 for a bare id   *)
joinTimeControl(data) ==
  IF isNaN(parseInt(data)) THEN TimeControl
  ELSE IF numberOf(parseInt(data)) = 0 THEN TimeControl
  ELSE numberOf(parseInt(data))

(* lines 84-154: with both seats bound the clocks start and the interval   *)
(* is created unless the room already has one                              *)
gameReady(game) ==
  IF game.whiteId # NoSocket /\ game.blackId # NoSocket
  THEN [game EXCEPT !.timerRunning = TRUE,
                    !.timers.whiteActive = TRUE,
                    !.timers.blackActive = TRUE,
                    !.timerInterval = IF @ = "undefined" THEN "set" ELSE @]
  ELSE game

(* the join with the first seat taken by everyone, vacant or not *)
joinGameWhiteAlways(game, socket) ==
  [game |-> gameReady([game EXCEPT !.whiteId = socket]), emit |-> "playerColor: white"]

(* lines 52-154, on the room found or created at lines 48-50 *)
joinGame(game, socket) ==
  IF game.whiteId = NoSocket
  THEN [game |-> gameReady([game EXCEPT !.whiteId = socket]), emit |-> "playerColor: white"]
  ELSE IF game.blackId = NoSocket
  THEN [game |-> gameReady([game EXCEPT !.blackId = socket]), emit |-> "playerColor: black"]
  ELSE [game |-> game, emit |-> "error: Room full"]

(* updateSettings without the test of the started flag *)
updateSettingsUnlocked(game, timeControl) ==
  IF timeControl = "undefined"
  THEN [game |-> game, emit |-> "none"]
  ELSE IF isNaN(parseInt(timeControl)) \/ numberOf(parseInt(timeControl)) < 0
  THEN [game |-> game, emit |-> "error: Invalid time control value"]
  ELSE [game |-> [game EXCEPT !.timers.timeControl = numberOf(parseInt(timeControl)),
                              !.timers.white = numberOf(parseInt(timeControl)),
                              !.timers.black = numberOf(parseInt(timeControl))],
        emit |-> "settingsUpdated"]

(* lines 165-193; timeControl is settings.timeControl *)
updateSettings(game, timeControl) ==
  IF game.gameStarted
  THEN [game |-> game, emit |-> "error: Cannot change settings after game has started"]
  ELSE IF timeControl = "undefined"
  THEN [game |-> game, emit |-> "none"]
  ELSE IF isNaN(parseInt(timeControl)) \/ numberOf(parseInt(timeControl)) < 0
  THEN [game |-> game, emit |-> "error: Invalid time control value"]
  ELSE [game |-> [game EXCEPT !.timers.timeControl = numberOf(parseInt(timeControl)),
                              !.timers.white = numberOf(parseInt(timeControl)),
                              !.timers.black = numberOf(parseInt(timeControl))],
        emit |-> "settingsUpdated"]

(* disconnect with the room kept only while the leaver's seat was black *)
disconnectDropsRoom(game, socket) ==
  [game EXCEPT !.whiteId = NoSocket,
               !.blackId = IF @ = socket THEN NoSocket ELSE @]

(* lines 474-483: the seats bound to the socket are cleared *)
disconnect(game, socket) ==
  [game EXCEPT !.whiteId = IF @ = socket THEN NoSocket ELSE @,
               !.blackId = IF @ = socket THEN NoSocket ELSE @]

(* lines 106-119: the active clocks lose the elapsed seconds, not below 0 *)
decrement(clocks, elapsed) ==
  [clocks EXCEPT !.white = IF clocks.whiteActive THEN Max(0, @ - elapsed) ELSE @,
                 !.black = IF clocks.blackActive THEN Max(0, @ - elapsed) ELSE @]

(* lines 121-150, on the room with its clocks decremented *)
checkTimeout(game) ==
  IF game.timers.white <= 0
  THEN [game |-> [game EXCEPT !.timerInterval = "cleared", !.timerRunning = FALSE],
        emit |-> "gameState: blackWins"]
  ELSE IF game.timers.black <= 0
  THEN [game |-> [game EXCEPT !.timerInterval = "cleared", !.timerRunning = FALSE],
        emit |-> "gameState: whiteWins"]
  ELSE [game |-> game, emit |-> "timerUpdate"]

(* the callback without the test for a time control of 0 *)
timerTickAlwaysCounting(game, elapsed) ==
  IF ~game.timerRunning
  THEN [game |-> game, emit |-> "none"]
  ELSE checkTimeout([game EXCEPT !.timers = decrement(@, elapsed)])

(* lines 97-152: the interval's callback, elapsed seconds after lastUpdate *)
timerTick(game, elapsed) ==
  IF ~game.timerRunning
  THEN [game |-> game, emit |-> "none"]
  ELSE IF game.timers.timeControl = 0
  THEN [game |-> game, emit |-> "timerUpdate"]
  ELSE checkTimeout([game EXCEPT !.timers = decrement(@, elapsed)])

(* The lobby: the server with no room yet, or with the PawnRoom game in    *)
(* progress.  The room variables hold noRoom while games is empty; the     *)
(* interval outlives the room object unless it was cleared.  A tick of one *)
(* second is taken while fewer than MaxTicks seconds are spent; a tick of  *)
(* TimeControl seconds is a server that was held up.                       *)

MaxTicks == 1

TimeInputs == {"undefined", "abc", "-1", "0", "2"}

Elapsed == {1, TimeControl}

LobbyMoves ==
  { mv("e", 2, "e", 4), mv("e", 7, "e", 5), mv("b", 7, "b", 8), mv("g", 2, "g", 1),
    mv("e", 5, "e", 6) }

LobbySockets == {"s1", "s2"}

LobbyChoices == {<<Sq("b", 8), "Q">>, <<Sq("g", 1), "N">>}

noRoom(interval) ==
  [createGameState(TimeControl) EXCEPT
     !.timerInterval = IF interval = "set" THEN "cleared" ELSE interval]

InitLobby ==
  /\ \/ IsRoom(PawnRoom)
     \/ /\ Holds(noRoom("undefined"))
        /\ games = {}
  /\ emitted = "none"

JoinGame(socket, data) ==
  /\ \E handled \in {joinGame(IF games = {} THEN createGameState(joinTimeControl(data))
                              ELSE Game, socket)} :
       /\ Becomes(handled.game)
       /\ emitted' = handled.emit
  /\ games' = {RoomId}

UpdateSettings(socket, timeControl) ==
  /\ IF games = {}
     THEN emitted' = "error: Game not found" /\ UNCHANGED roomVars
     ELSE \E handled \in {updateSettings(Game, timeControl)} :
            /\ Becomes(handled.game)
            /\ emitted' = handled.emit
  /\ UNCHANGED games

Disconnect(socket) ==
  IF games = {}
  THEN emitted' = "none" /\ UNCHANGED <<roomVars, games>>
  ELSE \E left \in {disconnect(Game, socket)} :
         /\ emitted' = IF left = Game THEN "none" ELSE "playerDisconnected"
         /\ IF left.whiteId = NoSocket /\ left.blackId = NoSocket
            THEN Becomes(noRoom(left.timerInterval)) /\ games' = {}
            ELSE Becomes(left) /\ UNCHANGED games

TimerTick(elapsed) ==
  /\ timerInterval = "set"
  /\ \/ elapsed = TimeControl
     \/ timers.timeControl - timers.white < MaxTicks /\ timers.timeControl - timers.black < MaxTicks
  /\ \E handled \in {timerTick(Game, elapsed)} :
       /\ Becomes(handled.game)
       /\ emitted' = handled.emit
  /\ UNCHANGED games

NextLobby ==
  \/ \E socket \in LobbySockets, data \in TimeInputs : JoinGame(socket, data)
  \/ \E socket \in LobbySockets, timeControl \in TimeInputs : UpdateSettings(socket, timeControl)
  \/ \E socket \in LobbySockets : Disconnect(socket)
  \/ \E elapsed \in Elapsed : TimerTick(elapsed)
  \/ \E socket \in LobbySockets, move \in LobbyMoves : SubmitMove(socket, move)
  \/ \E socket \in LobbySockets, choice \in LobbyChoices : PromotePawn(socket, choice[1], choice[2])

SpecLobby == InitLobby /\ [][NextLobby]_vars

(* Properties of a resolved round.  lastRound is the history entry of the  *)
(* round just resolved; in a step that resolves a round, position is the   *)
(* pre-round position and position' the new one.                           *)

RoundResolved == Len(moveHistory') = Len(moveHistory) + 1

lastRound == moveHistory[Len(moveHistory)]

(* the piece a history entry moved, or what its promotion made of it *)
isMovedPiece(piece, entry) ==
  /\ piece[1] = entry.piece[1]
  /\ piece[3] = entry.piece[3]
  /\ piece[2] = IF entry.promotion # "" THEN entry.promotion ELSE entry.piece[2]

onBoard(pos, entry) == \E sq \in DOMAIN pos : isMovedPiece(pos[sq], entry)

kingOnBoard(pos, color) == \E sq \in DOMAIN pos : pos[sq][1] = color /\ pos[sq][2] = "K"

checkmated(colorName) == isCheckmate(positionToBoard(position), colorOf(colorName), Game)

(* not in check and without a move that leaves the own king out of check *)
stalemated(colorName) ==
  /\ ~isInCheck(positionToBoard(position), colorOf(colorName))
  /\ ~hasEscape(positionToBoard(position), colorOf(colorName), Game)

winOf(colorName) == IF colorName = "white" THEN "whiteWins" ELSE "blackWins"

(* C3: after every resolved round in which both destinations are the same  *)
(* square, that square is empty and neither moving piece is on the board.  *)
CollisionRemovesBoth ==
  Len(moveHistory) > 0 /\ lastRound.white.to = lastRound.black.to
    => /\ lastRound.white.to \notin DOMAIN position
       /\ ~onBoard(position, lastRound.white)
       /\ ~onBoard(position, lastRound.black)

(* C4: in every resolved round in which one side's destination is the      *)
(* square the other side's piece moved away from, both pieces stand on     *)
(* their destinations afterwards and the other side has lost no piece.     *)
SwerveNoCapture ==
  [][RoundResolved =>
       \A A \in ColorNames :
         LET B == otherName(A)
             round == moveHistory'[Len(moveHistory')]
         IN  round[A].to = round[B].from
               => /\ round[A].to \in DOMAIN position'
                  /\ isMovedPiece(position'[round[A].to], round[A])
                  /\ round[B].to \in DOMAIN position'
                  /\ isMovedPiece(position'[round[B].to], round[B])
                  /\ Cardinality({sq \in DOMAIN position' : position'[sq][1] = colorOf(B)})
                       = Cardinality({sq \in DOMAIN position : position[sq][1] = colorOf(B)})]_vars

(* C5: after a resolved round with both kings on the board and both        *)
(* colours checkmated, the result is a draw.                               *)
DoubleCheckmateIsDraw ==
  Len(moveHistory) > 0 /\ kingOnBoard(position, "w") /\ kingOnBoard(position, "b")
    /\ checkmated("white") /\ checkmated("black")
    => gameResult = "draw"

KingEliminationDecides ==
  Len(moveHistory) > 0
    => /\ \A c \in ColorNames :
            ~kingOnBoard(position, colorOf(c)) /\ kingOnBoard(position, colorOf(otherName(c)))
              => gameResult = winOf(otherName(c))
       /\ ~kingOnBoard(position, "w") /\ ~kingOnBoard(position, "b") => gameResult = "draw"
       /\ lastRound.white.piece[2] = "K" /\ lastRound.black.piece[2] = "K"
            /\ lastRound.white.to = lastRound.black.to
            => /\ gameResult = "draw"
               /\ ~kingOnBoard(position, "w")
               /\ ~kingOnBoard(position, "b")

(* C8: after a resolved round with both kings on the board and no colour   *)
(* checkmated, the result is a draw if some colour is stalemated and null  *)
(* otherwise.                                                              *)
StalemateOrContinue ==
  Len(moveHistory) > 0 /\ kingOnBoard(position, "w") /\ kingOnBoard(position, "b")
    /\ ~checkmated("white") /\ ~checkmated("black")
    => gameResult = IF stalemated("white") \/ stalemated("black") THEN "draw" ELSE "null"

kingCollided ==
  /\ lastRound.white.to = lastRound.black.to
  /\ lastRound.white.piece[2] = "K" \/ lastRound.black.piece[2] = "K"

SwerveWitness ==
  /\ Len(moveHistory) > 0
  /\ \E A \in ColorNames :
       /\ lastRound[A].to = lastRound[otherName(A)].from
       /\ lastRound[A].to \in DOMAIN position
       /\ isMovedPiece(position[lastRound[A].to], lastRound[A])
       /\ isMovedPiece(position[lastRound[otherName(A)].to], lastRound[otherName(A)])

(* C1: no resolved round contains a pawn move onto its promotion rank      *)
(* without a promotion choice.                                             *)
NoUnchosenPromotionResolved ==
  Len(moveHistory) > 0
    => \A c \in ColorNames :
         isPawnPromotion(lastRound[c].piece, lastRound[c].to) => lastRound[c].promotion # ""

(* C2: once the result is set, no step changes the position, the move      *)
(* history or the result.                                                  *)
ResultIsPermanent ==
  [][isSet(gameResult)
       => position' = position /\ moveHistory' = moveHistory /\ gameResult' = gameResult]_vars

(* C9: when a round is resolved in which a colour moves the piece it moved *)
(* in the round before, that piece is its king and its check flag is set,  *)
(* or no other piece of the colour has a legal move.                       *)
RepeatOnlyByException ==
  [][RoundResolved /\ Len(moveHistory) > 0 =>
       \A c \in ColorNames :
         LET moved == moveHistory'[Len(moveHistory')][c].piece
         IN  isMovedPiece(moved, lastRound[c])
               => \/ moved[2] = "K" /\ inCheck[c]
                  \/ ~hasOtherValidMoves(positionToBoard(position), colorOf(c), moved, Game)]_vars

RepeatWitness ==
  /\ Len(moveHistory) = 2
  /\ moveHistory[1].white.piece = <<"w", "K", "">>
  /\ moveHistory[2].white.piece = <<"w", "K", "">>
  /\ \E sq \in DOMAIN position : position[sq][1] = "w" /\ position[sq][2] = "R"

(* a move of the piece on the square that passes isLegalMove and leaves    *)
(* the own king out of check                                               *)
hasSafeMove(board, r, f, game) ==
  \E tr \in Coord, tf \in Coord :
    /\ isLegalMove(board, coordsToSquare([rank |-> r, file |-> f]),
                   coordsToSquare([rank |-> tr, file |-> tf]), SubSeq(board[r][f], 1, 2), game)
    /\ ~isInCheck(put(put(board, r, f, null), tr, tf, board[r][f]), board[r][f][1])

(* C10: in a game without a result, when the last-moved piece of a colour  *)
(* is its only piece with a move that is legal and leaves its own king out *)
(* of check, moving it again is not refused as a repeated piece.           *)
OnlyMoverMayRepeat ==
  \A c \in ColorNames :
    LET board == positionToBoard(position)
        piece == lastMovedPieces[c]
    IN  /\ ~isSet(gameResult)
        /\ piece # null
        /\ \E r \in Coord, f \in Coord : board[r][f] = piece /\ hasSafeMove(board, r, f, Game)
        /\ \A r \in Coord, f \in Coord :
             board[r][f] # null /\ board[r][f][1] = colorOf(c) /\ board[r][f] # piece
               => ~hasSafeMove(board, r, f, Game)
        => ~repeatRejected(Game, c, piece)

(* the replies with which submitMove refuses a submission *)
SubmitErrors ==
  {"error: Game not found", "error: You are not a player in this game",
   "error: No piece at starting position", "error: Not your piece",
   "error: Cannot move the same piece twice in a row", "error: Illegal move",
   "error: Your king is in check! You must make a move that resolves the check."}

(* C11: a step in which a submission is refused changes no field of the    *)
(* room, the game-started flag included.                                   *)
RejectedSubmitChangesNothing ==
  [][emitted' \in SubmitErrors => UNCHANGED roomVars]_vars

(* the position with the move played alone: the piece leaves its source    *)
(* and stands on its destination                                           *)
playedAlone(pos, move) ==
  [sq \in (DOMAIN pos \ {move.from}) \cup {move.to} |->
     IF sq = move.to THEN pos[move.from] ELSE pos[sq]]

NoKingIntoAttack ==
  \A c \in ColorNames :
    games # {} /\ pendingMoves[c] # null /\ pendingMoves[c].from \in DOMAIN position
      /\ position[pendingMoves[c].from][2] = "K"
      => ~isSquareUnderAttack(positionToBoard(position), pendingMoves[c].to,
                              colorOf(otherName(c)))

(* Properties of the lobby and the clocks. *)

bothJoined == games # {} /\ whiteId # NoSocket /\ blackId # NoSocket

hasCompleteMove(colorName) ==
  /\ pendingMoves[colorName] # null
  /\ pendingMoves[colorName].from \in DOMAIN position
  /\ isPawnPromotion(position[pendingMoves[colorName].from], pendingMoves[colorName].to)
       => pendingMoves[colorName].promotion # ""

(* C14: after every event, with both players joined and no terminal        *)
(* result, a colour's clock is active exactly when that colour has no      *)
(* complete pending move for the current round.                            *)
ClockActiveIffNoCompleteMove ==
  bothJoined /\ ~isSet(gameResult)
    => /\ timers.whiteActive <=> ~hasCompleteMove("white")
       /\ timers.blackActive <=> ~hasCompleteMove("black")

(* the interval is cleared in a room that still exists only by a timeout *)
timedOut == games # {} /\ timerInterval = "cleared"

(* C15: once a tick has found a clock at zero, no submitMove or            *)
(* promotePawn event resolves a round, changes the position or changes the *)
(* result.                                                                 *)
TimeoutIsTerminal ==
  [][timedOut /\ emitted' \in {"moveAccepted", "promotionNeeded", "promotionConfirmed"}
       => /\ position' = position
          /\ moveHistory' = moveHistory
          /\ gameResult' = gameResult]_vars

TickReplies == {"timerUpdate", "gameState: blackWins", "gameState: whiteWins"}

(* C16: in a room whose time control is 0 a timer tick changes neither     *)
(* clock and produces no timeout result.                                   *)
UnlimitedTimeNeverCounts ==
  [][games # {} /\ timers.timeControl = 0 /\ emitted' \in TickReplies
       => timers' = timers /\ timerRunning' = timerRunning /\ emitted' = "timerUpdate"]_vars

UnlimitedTickWitness ==
  /\ bothJoined
  /\ timers.timeControl = 0
  /\ timerRunning
  /\ emitted = "timerUpdate"

(* C17: in every room the time control and both clock values are           *)
(* non-negative, whatever values were passed to joinGame or updateSettings.*)
ClocksNonNegative ==
  games # {} => timers.timeControl >= 0 /\ timers.white >= 0 /\ timers.black >= 0

SettingsReplies ==
  {"settingsUpdated", "error: Cannot change settings after game has started",
   "error: Invalid time control value"}

PlayerSubmitReplies ==
  (SubmitErrors \ {"error: Game not found", "error: You are not a player in this game"})
    \cup {"moveAccepted", "promotionNeeded"}

(* C18: updateSettings succeeds only while no player has submitted a move  *)
(* in the room, and then the time control and both clocks equal the new    *)
(* value; a player's submission sets the lock, under the lock every        *)
(* updateSettings is refused and leaves the room as it was, and the lock   *)
(* stays set while the room exists.                                        *)
SettingsLock ==
  [][/\ emitted' = "settingsUpdated"
          => /\ ~gameStarted
             /\ timers'.timeControl >= 0
             /\ timers'.white = timers'.timeControl
             /\ timers'.black = timers'.timeControl
     /\ emitted' \in PlayerSubmitReplies => gameStarted'
     /\ gameStarted /\ emitted' \in SettingsReplies
          => /\ emitted' = "error: Cannot change settings after game has started"
             /\ UNCHANGED roomVars
     /\ gameStarted /\ games # {} /\ games' # {} => gameStarted']_vars

(* a room whose time control was set to 2 before the first submission and  *)
(* where a later updateSettings has just been refused                      *)
SettingsLockedWitness ==
  /\ games # {}
  /\ gameStarted
  /\ timers.timeControl = 2
  /\ emitted = "error: Cannot change settings after game has started"

JoinReplies == {"playerColor: white", "playerColor: black", "error: Room full"}

(* C19: a joiner gets white if the white seat is vacant, otherwise black   *)
(* if the black seat is vacant, and the other seat keeps its player; with  *)
(* both seats taken the join is refused as room full and the room is       *)
(* unchanged.                                                              *)
JoinAssignsSeats ==
  [][emitted' \in JoinReplies
       => IF whiteId = NoSocket
          THEN /\ emitted' = "playerColor: white"
               /\ whiteId' \in LobbySockets
               /\ games # {} => blackId' = blackId
          ELSE IF blackId = NoSocket
          THEN /\ emitted' = "playerColor: black"
               /\ blackId' \in LobbySockets
               /\ whiteId' = whiteId
          ELSE /\ emitted' = "error: Room full"
               /\ UNCHANGED <<roomVars, games>>]_vars

RoomFullWitness ==
  bothJoined /\ emitted = "error: Room full" /\ pendingMoves.white # null

(* C20: a disconnect that leaves a seat bound clears only the leaver's     *)
(* seat and changes nothing else of the room; the room is deleted exactly  *)
(* when no seat is bound any more, and its interval is then cleared.       *)
DisconnectKeepsGame ==
  /\ [](games # {} => whiteId # NoSocket \/ blackId # NoSocket)
  /\ [](games = {} => timerInterval # "set")
  /\ [][emitted' = "playerDisconnected"
          => IF games' # {}
             THEN /\ \/ whiteId # NoSocket /\ whiteId' = NoSocket /\ blackId' = blackId
                     \/ blackId # NoSocket /\ blackId' = NoSocket /\ whiteId' = whiteId
                  /\ UNCHANGED <<position, pendingMoves, lastMovedPieces, inCheck,
                                 castlingRights, enPassantTarget, moveHistory, gameResult,
                                 timers, timerRunning, gameStarted, timerInterval>>
             ELSE \E socket \in LobbySockets :
                    whiteId \in {socket, NoSocket} /\ blackId \in {socket, NoSocket}]_vars

DisconnectWitness ==
  /\ games # {}
  /\ emitted = "playerDisconnected"
  /\ whiteId = NoSocket
  /\ blackId # NoSocket
  /\ pendingMoves.white # null
  /\ timerInterval = "set"

(* Properties of promotion, en passant, castling and attack detection. *)

PromoteErrors ==
  {"error: You are not a player in this game", "error: Invalid promotion piece type",
   "error: No pending move requiring promotion", "error: Square mismatch for promotion",
   "error: No pawn found for promotion", "error: Pawn is not moving to the promotion rank"}

ChoiceSquares == {choice[1] : choice \in InputChoices} \cup {Sq("e", 6), Sq("d", 4)}

ChoiceTypes == PromotionTypes \cup {"K", "P"}

(* the colour has a pending move of its own pawn onto its promotion rank *)
hasPendingPromotion(colorName) ==
  /\ pendingMoves[colorName] # null
  /\ pendingMoves[colorName].from \in DOMAIN position
  /\ position[pendingMoves[colorName].from][1] = colorOf(colorName)
  /\ isPawnPromotion(position[pendingMoves[colorName].from], pendingMoves[colorName].to)

choiceAnswered(handled, socket, square, pieceType) ==
  /\ handled.emit = "promotionConfirmed"
       <=> /\ colorNameOf(Game, socket) # "null"
           /\ hasPendingPromotion(colorNameOf(Game, socket))
           /\ pendingMoves[colorNameOf(Game, socket)].to = square
           /\ pieceType \in {"Q", "R", "N", "B"}
  /\ handled.emit # "promotionConfirmed"
       => handled.emit \in PromoteErrors /\ handled.game = Game

(* C21: in every room a promotion choice is accepted exactly when the      *)
(* sender's colour has a pending move of its own pawn onto its promotion   *)
(* rank, the square is that move's destination and the type is Q, R, N or  *)
(* B; every other choice is refused and leaves the room as it was.         *)
ChoiceAcceptedOnlyForPendingPromotion ==
  games # {}
    => \A socket \in Sockets, square \in ChoiceSquares, pieceType \in ChoiceTypes :
         choiceAnswered(promotePawn(Game, socket, square, pieceType),
                        socket, square, pieceType)

ChoiceWitness ==
  /\ emitted = "promotionConfirmed"
  /\ hasPendingPromotion("white")
  /\ pendingMoves.white.promotion = "Q"
  /\ pendingMoves.black = null

(* C22: after a resolved round without a collision, a move that carried a  *)
(* promotion choice T has put on its destination a piece of the mover's    *)
(* colour, of type T, with the pawn's identity; the pawn is on the board   *)
(* no more and the new piece is the colour's last-moved piece.             *)
PromotionSubstitutes ==
  Len(moveHistory) > 0 /\ lastRound.white.to # lastRound.black.to
    => \A c \in ColorNames :
         lastRound[c].promotion # ""
           => /\ lastRound[c].to \in DOMAIN position
              /\ position[lastRound[c].to]
                   = <<colorOf(c), lastRound[c].promotion, lastRound[c].piece[3]>>
              /\ \A sq \in DOMAIN position : position[sq] # lastRound[c].piece
              /\ lastMovedPieces[c] = position[lastRound[c].to]

PromotionWitness ==
  /\ Len(moveHistory) > 0
  /\ lastRound.white.promotion = "N"
  /\ lastRound.black.promotion = "R"
  /\ lastRound.white.to \in DOMAIN position
  /\ position[lastRound.white.to] = <<"w", "N", "b">>

(* the history entry is a pawn's advance of two ranks *)
isDoubleAdvance(entry) ==
  entry.piece # null /\ entry.piece[2] = "P" /\ Abs(entry.to[2] - entry.from[2]) = 2

(* the square the pawn of a double advance passed over *)
passedOver(entry) == <<entry.from[1], (entry.from[2] + entry.to[2]) \div 2>>

(* the enemy pawns standing diagonally in front of the square, one rank    *)
(* from it in their direction of travel                                    *)
pawnsBeside(pos, square, color) ==
  {sq \in DOMAIN pos : /\ pos[sq] = <<color, "P", pos[sq][3]>>
                       /\ Abs(sq[1] - square[1]) = 1
                       /\ square[2] - sq[2] = IF color = "w" THEN 1 ELSE -1}

(* C23: after a round in which both colours advanced a pawn two ranks,     *)
(* each passed-over square is a legal destination for every enemy pawn     *)
(* standing beside the advanced pawn.                                      *)
BothDoubleAdvancesCapturable ==
  Len(moveHistory) > 0 /\ isDoubleAdvance(lastRound.white) /\ isDoubleAdvance(lastRound.black)
    => \A c \in ColorNames :
         \A sq \in pawnsBeside(position, passedOver(lastRound[c]), colorOf(otherName(c))) :
           isLegalMove(positionToBoard(position), sq, passedOver(lastRound[c]),
                       SubSeq(position[sq], 1, 2), Game)

(* the colour's stored move takes a pawn diagonally onto an empty square *)
isDiagonalOntoEmpty(colorName) ==
  /\ pendingMoves[colorName] # null
  /\ pendingMoves[colorName].from \in DOMAIN position
  /\ position[pendingMoves[colorName].from][2] = "P"
  /\ pendingMoves[colorName].from[1] # pendingMoves[colorName].to[1]
  /\ pendingMoves[colorName].to \notin DOMAIN position

(* C24: once a round has been resolved, every accepted diagonal pawn move  *)
(* onto an empty square goes to the square passed over by an enemy pawn    *)
(* that advanced two ranks in the round before.                            *)
EnPassantOnlyOnEnemyTarget ==
  \A c \in ColorNames :
    games # {} /\ Len(moveHistory) > 0 /\ isDiagonalOntoEmpty(c)
      => /\ isDoubleAdvance(lastRound[otherName(c)])
         /\ passedOver(lastRound[otherName(c)]) = pendingMoves[c].to

Sides == {"kingSide", "queenSide"}

homeCorner(colorName, side) ==
  <<IF side = "queenSide" THEN 0 ELSE 7, IF colorName = "white" THEN 1 ELSE 8>>

(* in the round being resolved the opponent's piece lands on a rook of the *)
(* colour that stands on the home corner of the side                       *)
rookTakenAtHome(colorName, side) ==
  /\ homeCorner(colorName, side) \in DOMAIN position
  /\ position[homeCorner(colorName, side)][1] = colorOf(colorName)
  /\ position[homeCorner(colorName, side)][2] = "R"
  /\ moveHistory'[Len(moveHistory')][otherName(colorName)].to = homeCorner(colorName, side)
  /\ homeCorner(colorName, side) \in DOMAIN position'
  /\ position'[homeCorner(colorName, side)][1] = colorOf(otherName(colorName))

(* C25: in a room a castling right that is false stays false; a round in   *)
(* which a colour's king moved leaves both its rights false, and a round   *)
(* in which a rook left its home corner, or an opponent's piece landed on  *)
(* a rook on its home corner, leaves that colour's right for the side      *)
(* false.                                                                  *)
CastlingRightsOnlyRevoked ==
  [][games # {} /\ games' # {}
       => \A c \in ColorNames, side \in Sides :
            /\ ~castlingRights[c][side] => ~castlingRights'[c][side]
            /\ RoundResolved /\ moveHistory'[Len(moveHistory')][c].piece # null
                 /\ moveHistory'[Len(moveHistory')][c].piece[2] = "K"
                 => ~castlingRights'[c][side]
            /\ RoundResolved /\ moveHistory'[Len(moveHistory')][c].piece # null
                 /\ moveHistory'[Len(moveHistory')][c].piece[2] = "R"
                 /\ moveHistory'[Len(moveHistory')][c].from = homeCorner(c, side)
                 => ~castlingRights'[c][side]
            /\ RoundResolved /\ rookTakenAtHome(c, side)
                 => ~castlingRights'[c][side]]_vars

(* the black king has taken the a1 rook while white moved its h1 rook *)
RookTakenWitness ==
  /\ Len(moveHistory) > 0
  /\ lastRound.black.to = Sq("a", 1)
  /\ Sq("a", 1) \in DOMAIN position
  /\ position[Sq("a", 1)] = <<"b", "K", "">>
  /\ lastRound.white.piece = <<"w", "R", "2">>
  /\ ~castlingRights.white.queenSide

(* C26: every resolved round gives the position and the result that the   *)
(* resolution gives with black's statements of each step carried out       *)
(* before white's.                                                         *)
ResolutionOrderIndependent ==
  [][RoundResolved
       => /\ position' = boardToPosition(resolveBoardBlackFirst(
                            positionToBoard(position), pendingMoves.white, pendingMoves.black))
          /\ gameResult' = evaluateResult(
                             collisionResultBlackFirst(
                               movedPiece(positionToBoard(position), pendingMoves.white),
                               movedPiece(positionToBoard(position), pendingMoves.black),
                               pendingMoves.white, pendingMoves.black),
                             positionToBoard(position'),
                             [castlingRights |-> castlingRights',
                              enPassantTarget |-> newEnPassantTargetBlackFirst(
                                 positionToBoard(position),
                                 pendingMoves.white, pendingMoves.black)])]_vars

(* the colour's stored move takes its king two files along its rank *)
isCastlingMove(colorName) ==
  /\ pendingMoves[colorName] # null
  /\ pendingMoves[colorName].from \in DOMAIN position
  /\ position[pendingMoves[colorName].from][2] = "K"
  /\ Abs(pendingMoves[colorName].to[1] - pendingMoves[colorName].from[1]) = 2

(* the king's square, the square it passes over and the square it lands on *)
castlingPath(move) ==
  {move.from, <<(move.from[1] + move.to[1]) \div 2, move.from[2]>>, move.to}

(* C27: no accepted castling move has the king's square, the square it     *)
(* passes over or the square it lands on attacked by an opposing piece.    *)
CastlingAvoidsAttack ==
  \A c \in ColorNames :
    games # {} /\ isCastlingMove(c)
      => \A sq \in castlingPath(pendingMoves[c]) :
           ~isSquareUnderAttack(positionToBoard(position), sq, colorOf(otherName(c)))

(* the squares strictly between two squares of one line are all empty *)
lineOpen(pos, from, to) ==
  \A k \in 1 .. (Max(Abs(to[1] - from[1]), Abs(to[2] - from[2])) - 1) :
    <<from[1] + k * Sign(to[1] - from[1]), from[2] + k * Sign(to[2] - from[2])>>
      \notin DOMAIN pos

(* the piece on from attacks the square by the geometry of chess: a pawn   *)
(* its two diagonally-forward squares, the line pieces along open lines,   *)
(* knight and king by their offsets                                        *)
attacksByGeometry(pos, from, square) ==
  /\ from # square
  /\ CASE pos[from][2] = "P" ->
            /\ Abs(square[1] - from[1]) = 1
            /\ square[2] - from[2] = IF pos[from][1] = "w" THEN 1 ELSE -1
       [] pos[from][2] = "N" ->
            {Abs(square[1] - from[1]), Abs(square[2] - from[2])} = {1, 2}
       [] pos[from][2] = "K" ->
            Abs(square[1] - from[1]) <= 1 /\ Abs(square[2] - from[2]) <= 1
       [] pos[from][2] = "R" ->
            /\ square[1] = from[1] \/ square[2] = from[2]
            /\ lineOpen(pos, from, square)
       [] pos[from][2] = "B" ->
            /\ Abs(square[1] - from[1]) = Abs(square[2] - from[2])
            /\ lineOpen(pos, from, square)
       [] pos[from][2] = "Q" ->
            /\ \/ square[1] = from[1]
               \/ square[2] = from[2]
               \/ Abs(square[1] - from[1]) = Abs(square[2] - from[2])
            /\ lineOpen(pos, from, square)

(* C28: in every room, for every colour and every square that does not     *)
(* hold a piece of that colour, isSquareUnderAttack answers whether a      *)
(* piece of the colour attacks the square by the geometry of chess.        *)
AttackMatchesGeometry ==
  games # {}
    => \A square \in Squares, color \in {"w", "b"} :
         ~(square \in DOMAIN position /\ position[square][1] = color)
           => (isSquareUnderAttack(positionToBoard(position), square, color)
                 <=> \E from \in DOMAIN position :
                       position[from][1] = color /\ attacksByGeometry(position, from, square))

(* C29: in every room each colour's check flag equals isInCheck on the     *)
(* current position, and the flag of a colour without a king is false.     *)
CheckFlagsTrackPosition ==
  games # {}
    => \A c \in ColorNames :
         /\ inCheck[c] = isInCheck(positionToBoard(position), colorOf(c))
         /\ ~kingOnBoard(position, colorOf(c)) => ~inCheck[c]

(* a round has just put the black king in check without ending the game *)
CheckFlagWitness ==
  /\ Len(moveHistory) > 0
  /\ inCheck.black
  /\ ~inCheck.white
  /\ gameResult = "null"
  /\ emitted \in {"moveAccepted", "promotionConfirmed"}

(* C30: a resolved round leaves as en-passant target the square passed     *)
(* over by a pawn that advanced two ranks in that round, or null if none   *)
(* did; no other event of the room changes the target, so a target never   *)
(* outlives the round after the one that made it.                          *)
EnPassantTargetLastsOneRound ==
  [][games # {} /\ games' # {}
       => IF RoundResolved
          THEN \/ /\ enPassantTarget' = null
                  /\ \A c \in ColorNames : ~isDoubleAdvance(moveHistory'[Len(moveHistory')][c])
               \/ \E c \in ColorNames :
                    /\ isDoubleAdvance(moveHistory'[Len(moveHistory')][c])
                    /\ enPassantTarget' = passedOver(moveHistory'[Len(moveHistory')][c])
          ELSE enPassantTarget' = enPassantTarget]_vars

(* the target of a double advance in the first round is gone after the     *)
(* second                                                                  *)
TargetClearedWitness ==
  /\ Len(moveHistory) = 2
  /\ isDoubleAdvance(moveHistory[1].black)
  /\ enPassantTarget = null

(* Independent moves.  A move is ordinary when it is no promotion, no king  *)
(* move of two files and no pawn move to another file onto an empty square. *)

isOrdinaryMove(pos, entry) ==
  /\ entry.promotion = ""
  /\ ~isPawnPromotion(entry.piece, entry.to)
  /\ ~(entry.piece[2] = "K" /\ Abs(entry.from[1] - entry.to[1]) = 2)
  /\ ~(entry.piece[2] = "P" /\ entry.from[1] # entry.to[1] /\ entry.to \notin DOMAIN pos)

(* the position with both moving pieces taken from their sources and put   *)
(* on their destinations                                                   *)
relocated(pos, white, black) ==
  [sq \in (DOMAIN pos \ {white.from, black.from}) \cup {white.to, black.to} |->
     IF sq = white.to THEN pos[white.from]
     ELSE IF sq = black.to THEN pos[black.from]
     ELSE pos[sq]]

(* C31: in every resolved round of two ordinary moves with different       *)
(* destinations the new position is the old one with each moving piece     *)
(* relocated from its source to its destination and every other square     *)
(* unchanged; e2-e4 with e7-e5 from the starting position leaves no check  *)
(* flag and no result.                                                     *)
IndependentMovesRelocate ==
  [][RoundResolved =>
       LET round == moveHistory'[Len(moveHistory')]
       IN  /\ isOrdinaryMove(position, round.white)
           /\ isOrdinaryMove(position, round.black)
           /\ round.white.to # round.black.to
           => /\ position' = relocated(position, round.white, round.black)
              /\ position = getStartingPosition
                 /\ round.white.from = Sq("e", 2) /\ round.white.to = Sq("e", 4)
                 /\ round.black.from = Sq("e", 7) /\ round.black.to = Sq("e", 5)
                 => /\ inCheck' = [white |-> FALSE, black |-> FALSE]
                    /\ gameResult' = "null"]_vars

(* e2-e4 and e7-e5 resolved from the starting position *)
IndependentWitness ==
  /\ Len(moveHistory) = 1
  /\ lastRound.white.from = Sq("e", 2) /\ lastRound.white.to = Sq("e", 4)
  /\ lastRound.black.from = Sq("e", 7) /\ lastRound.black.to = Sq("e", 5)
  /\ Sq("e", 4) \in DOMAIN position /\ position[Sq("e", 4)][2] = "P"
  /\ Sq("e", 5) \in DOMAIN position /\ position[Sq("e", 5)][2] = "P"
  /\ Sq("e", 2) \notin DOMAIN position /\ Sq("e", 7) \notin DOMAIN position

(* an ordinary capture of a piece that stayed: the new position has one    *)
(* piece fewer                                                             *)
IndependentCaptureWitness ==
  /\ Len(moveHistory) = 1
  /\ lastRound.white.promotion = "" /\ lastRound.black.promotion = ""
  /\ lastRound.white.to # lastRound.black.to
  /\ lastRound.white.to # lastRound.black.from
  /\ lastRound.white.piece[2] = "R"
  /\ lastRound.white.to \in DOMAIN position
  /\ position[lastRound.white.to] = lastRound.white.piece
  /\ lastRound.white.from = Sq("a", 7) /\ lastRound.white.to = Sq("g", 7)

(* Atomic resolution.  The history entry made of a stored move. *)

entryMatches(entry, move) ==
  /\ entry.from = move.from
  /\ entry.to = move.to
  /\ entry.promotion = move.promotion

(* C32: every handler step leaves the move history as it was or appends    *)
(* exactly one entry; a step that appends one takes the waiting colour's   *)
(* stored move as it stands and the sender's move (its stored move with    *)
(* the choice attached when the step is a promotion choice), leaves both   *)
(* pending slots empty, and leaves both clocks active when the round gave  *)
(* no terminal result.                                                     *)
RoundResolvedOnce ==
  [][/\ Len(moveHistory') \in {Len(moveHistory), Len(moveHistory) + 1}
     /\ SubSeq(moveHistory', 1, Len(moveHistory)) = moveHistory
     /\ RoundResolved =>
          LET round == moveHistory'[Len(moveHistory')]
          IN  /\ emitted' \in {"moveAccepted", "promotionConfirmed"}
              /\ \E A \in ColorNames :
                   /\ pendingMoves[otherName(A)] # null
                   /\ entryMatches(round[otherName(A)], pendingMoves[otherName(A)])
                   /\ round[otherName(A)].piece = position[round[otherName(A)].from]
                   /\ round[A].piece = position[round[A].from]
                   /\ emitted' = "promotionConfirmed"
                      => /\ pendingMoves[A] # null
                         /\ round[A].from = pendingMoves[A].from
                         /\ round[A].to = pendingMoves[A].to
                         /\ round[A].promotion \in PromotionTypes
              /\ pendingMoves' = [white |-> null, black |-> null]
              /\ ~isSet(gameResult') => timers'.whiteActive /\ timers'.blackActive]_vars

(* a round resolved by a promotion choice, with no terminal result *)
ResolvedOnceWitness ==
  /\ emitted = "promotionConfirmed"
  /\ Len(moveHistory) = 1
  /\ lastRound.white.promotion = "Q"
  /\ pendingMoves = [white |-> null, black |-> null]
  /\ ~isSet(gameResult)
  /\ timers.whiteActive /\ timers.blackActive

(* Waiting.  The replies of a submission or choice the server accepted. *)

AcceptedReplies == {"moveAccepted", "promotionNeeded", "promotionConfirmed"}

pendingValid(game, colorName) ==
  /\ game.pendingMoves[colorName].from \in DOMAIN game.position
  /\ game.position[game.pendingMoves[colorName].from][1] = colorOf(colorName)
  /\ isLegalMove(positionToBoard(game.position),
                 game.pendingMoves[colorName].from, game.pendingMoves[colorName].to,
                 SubSeq(game.position[game.pendingMoves[colorName].from], 1, 2), game)

(* the room with the two moves of a history entry in its pending slots *)
withRound(game, round) ==
  [game EXCEPT !.pendingMoves = [white |-> Move(round.white.from, round.white.to),
                                 black |-> Move(round.black.from, round.black.to)]]

(* C34: after every step, each stored pending move starts on a square that *)
(* holds a piece of its colour and is legal for that piece in the current  *)
(* position; and both moves of a round that is resolved are so in the      *)
(* position the round is resolved on.                                      *)
PendingMovesStayValid ==
  [][/\ \A A \in ColorNames : pendingMoves'[A] # null => pendingValid(Game', A)
     /\ RoundResolved =>
          \A A \in ColorNames :
            pendingValid(withRound(Game, moveHistory'[Len(moveHistory')]), A)]_vars

(* white's stored move outlives the connection that sent it *)
PendingOutlivesSenderWitness ==
  /\ games = {RoomId}
  /\ pendingMoves.white # null
  /\ whiteId = NoSocket
  /\ pendingValid(Game, "white")

(* Room creation.  The room a join creates from the time control it sent. *)

created(data, socket) == joinGame(createGameState(joinTimeControl(data)), socket).game

(* C35: whenever a join creates the room, every non-negative integer time  *)
(* control the joiner can send, 0 included, becomes the room's time control *)
(* and both clock values; a join to a room that exists leaves them alone.  *)
TimeControlAtCreation ==
  [][emitted' \in JoinReplies =>
       IF games = {}
       THEN \A data \in TimeInputs, socket \in LobbySockets :
              ~isNaN(parseInt(data)) /\ numberOf(parseInt(data)) >= 0
                => /\ created(data, socket).timers.timeControl = numberOf(parseInt(data))
                   /\ created(data, socket).timers.white = numberOf(parseInt(data))
                   /\ created(data, socket).timers.black = numberOf(parseInt(data))
       ELSE /\ timers'.timeControl = timers.timeControl
            /\ timers'.white = timers.white
            /\ timers'.black = timers.black]_vars

(* C36: once a terminal result is stored, both clock-active flags are      *)
(* false in the state every handler leaves, and no later step lowers a     *)
(* clock value.                                                            *)
ClocksStopWhenOver ==
  [][isSet(gameResult') =>
       /\ ~timers'.whiteActive
       /\ ~timers'.blackActive
       /\ isSet(gameResult) => /\ timers'.white >= timers.white
                               /\ timers'.black >= timers.black]_vars

(* Stuck rounds.  Some submission of the colour's player is accepted. *)

canSubmit(game, colorName) ==
  \E from \in DOMAIN game.position :
    /\ game.position[from][1] = colorOf(colorName)
    /\ \E to \in Squares :
         submitOn(game, colorName, Move(from, to), positionToBoard(game.position)).emit
           \in {"moveAccepted", "promotionNeeded"}

(* C37: in every state with no terminal result and both kings on the      *)
(* board, each colour has a move that submitMove accepts.                  *)
NoStuckRound ==
  /\ games = {RoomId}
  /\ ~isSet(gameResult)
  /\ kingOnBoard(position, "w")
  /\ kingOnBoard(position, "b")
  => \A A \in ColorNames : canSubmit(Game, A)

(* Castling rights and home squares. *)

homeSquare(colorName) == <<4, IF colorName = "white" THEN 1 ELSE 8>>

standsOn(pos, square, color, type) ==
  /\ square \in DOMAIN pos
  /\ pos[square][1] = color
  /\ pos[square][2] = type

(* C38: in every state of a room, a colour whose king is on the board and  *)
(* whose castling right for a side is true has its king on the home square *)
(* and a rook of its colour on the home corner of that side.               *)
CastlingRightsImplyHome ==
  games = {RoomId} =>
    \A A \in ColorNames, side \in Sides :
      kingOnBoard(position, colorOf(A)) /\ castlingRights[A][side]
        => /\ standsOn(position, homeSquare(A), colorOf(A), "K")
           /\ standsOn(position, homeCorner(A, side), colorOf(A), "R")

(* white's a1 rook has moved and black has played: the king-side right     *)
(* stands with the king on e1 and the rook on h1, the queen-side right is  *)
(* gone                                                                    *)
RightStandsWitness ==
  /\ Len(moveHistory) = 1
  /\ lastRound.white.piece[2] = "R"
  /\ lastRound.white.from = Sq("a", 1)
  /\ castlingRights.white = [kingSide |-> TRUE, queenSide |-> FALSE]
  /\ standsOn(position, Sq("e", 1), "w", "K")
  /\ standsOn(position, Sq("h", 1), "w", "R")

(* C39: in every position of a room no white pawn stands on rank 8 and no  *)
(* black pawn on rank 1.                                                   *)
NoPawnOnLastRank ==
  \A sq \in DOMAIN position :
    position[sq][2] = "P" => /\ position[sq][1] = "w" => sq[2] # 8
                             /\ position[sq][1] = "b" => sq[2] # 1

(* C40: in every state of a room the white seat and the black seat are not *)
(* bound to the same connection.                                           *)
SeatsAreDistinct ==
  games = {RoomId} /\ whiteId # NoSocket => whiteId # blackId

====
